---- MODULE Spec2Model ----
(***************************************************************************)
(* Dual-channel image sender (src/main.py).                                *)
(*                                                                         *)
(* One streaming session (the thread running websocket_communication) is   *)
(* modelled step by step, one step per await / statement of the coroutine. *)
(* The UI thread (Run, Stop, Update, Remove) and the two panels at the     *)
(* other end of the websockets are the environment.  Sessions started      *)
(* while this one is still running share nothing with it but the           *)
(* `streaming` flag and the playlist, which they only read, so they are    *)
(* counted in `others`.                                                    *)
(*                                                                         *)
(* Spec is the sender as a whole.  SpecOrder is a session over a playlist  *)
(* nobody edits.  SpecChunks, SpecPixel and SpecListen run                 *)
(* send_frame_data, rgb_to_rgb565 and listen_for_K on their own, over      *)
(* every input up to a bound.                                              *)
(***************************************************************************)
EXTENDS Naturals, Sequences, FiniteSets, TLC

\* ---------------------------------------------------------------- bounds
\* Playlist slots (40 in build(); scaled down).
NumSlots == 1
\* Bytes of one serialized half frame (256*128*2 in the program; scaled down).
HalfBytes == 3
\* Bytes per websocket write (1024 * 8 in the program; scaled down).
chunk_size == 2
\* Surplus messages the panels emit during one session.
MaxExtras == 1

\* ---------------------------------------------------------------- values
None == "None"
\* File names the UI can put in a slot: one that cv2.imread decodes and one
\* it does not.
Loadable == {"a.png"}
Paths == Loadable \cup {"bad.png"}
\* Text messages a panel can emit: the ready signal and anything else.
Msgs == {"K", "X"}
\* ESP32_1 is channel 1, ESP32_2 is channel 2.
Chan == {1, 2}
Other(c) == 3 - c

VARIABLES
    streaming,      \* the global flag
    image_paths,    \* the playlist, ImageSenderApp.image_paths
    pc,             \* position of the session in websocket_communication
    idx,            \* position of the for loop in image_paths
    image_path,     \* the loop variable
    chan,           \* per channel: "closed", "open", "broken" (peer gone, not yet closed)
    task,           \* per channel: the gathered coroutine: "idle", "run", "done"
    off,            \* per channel: loop variable i of send_frame_data
    received_K,     \* per channel: received_K1, received_K2 of listen_for_K
    exc,            \* an exception reached the except clause of the session
    inbox,          \* per channel: messages emitted by the panel, not yet read
    rx,             \* per channel: bytes the panel holds, not yet answered with "K"
    others,         \* further session threads alive: 0, 1 for one or more
    sentP,          \* history: "P" written on the channel in this frame cycle
    emittedK,       \* history: the panel emitted "K" in this frame cycle
    sendFailed,     \* history: a chunk write raised in this frame cycle
    extras,         \* history: surplus messages emitted during this session
    cycles,         \* history: frame cycles begun by the session: 0, 1, 2 for two or more
    sentRows,       \* history: per channel, image rows written in this frame cycle
    frame_bytes,    \* send_frame_data on its own: the serialized buffer
    csz,            \* send_frame_data on its own: the parameter chunk_size
    pos,            \* send_frame_data on its own: the loop variable i
    writes,         \* send_frame_data on its own: the chunks written, in order
    rgb,            \* rgb_to_rgb565 on its own: the pixel <<r, g, b>>
    px,             \* rgb_to_rgb565 on its own: the value returned, in a sequence empty before the call
    wire            \* listen_for_K on its own: per channel, messages the panel has yet to emit

\* State of the sender as a whole.
sender == <<streaming, image_paths, pc, idx, image_path, chan, task, off,
            received_K, exc, inbox, rx, others, sentP, emittedK, sendFailed,
            extras, cycles, sentRows>>
\* State of the two functions run on their own.
pure == <<frame_bytes, csz, pos, writes, rgb, px, wire>>

vars == <<sender, pure>>

ui == <<streaming, image_paths, others>>
locals == <<idx, image_path, task, off, received_K>>
panel == <<inbox, rx>>
cyc == <<sentP, emittedK, sendFailed, sentRows>>
hist == <<cyc, extras, cycles>>

NoChan == [c \in Chan |-> FALSE]
NoRows == [c \in Chan |-> {}]
Min(a, b) == IF a < b THEN a ELSE b

\* cv2.imread: None for a file it cannot decode.
imread(path) == IF path \in Loadable THEN path ELSE None

\* Rows of the resized image, cv2.resize(image, (64*4, 128*2)): twice the
\* rows of one half.  A row is one byte of the serialized half here.
ImageRows == 2 * HalfBytes
\* image_rgb[:128, :]
image_top == {y \in 0..(ImageRows - 1) : y < HalfBytes}
\* image_rgb[128:, :]
image_bottom == {y \in 0..(ImageRows - 1) : y >= HalfBytes}
\* Part as it would be with the two halves exchanged in the gather.
PartSwapped(c) == IF c = 1 THEN image_top ELSE image_bottom

\* The half handed to send_image_part for channel c: the top half goes with
\* websocket2, the bottom half with websocket1.
Part(c) == IF c = 2 THEN image_top ELSE image_bottom
\* The rows of the half of channel c serialized at bytes lo .. lo + n - 1.
RowsAt(c, lo, n) ==
    {y \in Part(c) : Cardinality({q \in Part(c) : q < y}) \in lo..(lo + n - 1)}

\* The session thread exists and has not returned.
SessionActive == pc \notin {"idle", "ended"}

\* Number of live session threads, or two when there are more.
Sessions == (IF SessionActive THEN 1 ELSE 0) + others

\* The functions run on their own are not running.
PureIdle ==
    /\ frame_bytes = <<>>
    /\ csz = 1
    /\ pos = 0
    /\ writes = <<>>
    /\ rgb = <<0, 0, 0>>
    /\ px = <<>>
    /\ wire = [c \in Chan |-> <<>>]

\* The application after build(), before any button is pressed.
SenderInit ==
    /\ streaming = FALSE
    /\ image_paths = [i \in 1..NumSlots |-> None]
    /\ pc = "idle"
    /\ idx = 1
    /\ image_path = None
    /\ chan = [c \in Chan |-> "closed"]
    /\ task = [c \in Chan |-> "idle"]
    /\ off = [c \in Chan |-> 0]
    /\ received_K = NoChan
    /\ exc = FALSE
    /\ inbox = [c \in Chan |-> <<>>]
    /\ rx = [c \in Chan |-> 0]
    /\ others = 0
    /\ sentP = NoChan
    /\ emittedK = NoChan
    /\ sendFailed = FALSE
    /\ extras = 0
    /\ cycles = 0
    /\ sentRows = NoRows

Init == SenderInit /\ PureIdle

\* ------------------------------------------------------------------- UI
\* Run button: sets the flag and starts a thread, unconditionally.
start_streaming ==
    /\ streaming' = TRUE
    /\ IF ~SessionActive
       THEN /\ pc' = "connect1"
            /\ exc' = FALSE
            /\ cycles' = 0
            /\ UNCHANGED others
       ELSE /\ others' = 1
            /\ UNCHANGED <<pc, exc, cycles>>
    /\ UNCHANGED <<image_paths, locals, chan, panel, cyc, extras, pure>>

\* Stop button.
stop_streaming ==
    /\ streaming' = FALSE
    /\ UNCHANGED <<image_paths, pc, locals, chan, exc, panel, others, hist, pure>>

\* Remove button of slot i.
remove_image ==
    \E i \in 1..NumSlots :
        /\ image_paths' = [image_paths EXCEPT ![i] = None]
        /\ UNCHANGED <<streaming, pc, locals, chan, exc, panel, others, hist, pure>>

\* Update button of slot i, a file chosen in the popup.
update_image ==
    \E i \in 1..NumSlots, p \in Paths :
        /\ image_paths' = [image_paths EXCEPT ![i] = p]
        /\ UNCHANGED <<streaming, pc, locals, chan, exc, panel, others, hist, pure>>

\* A session thread other than the modelled one returns; it was the last of
\* them or it was not.
OtherSessionEnds ==
    /\ others > 0
    /\ others' \in {0, 1}
    /\ UNCHANGED <<streaming, image_paths, pc, locals, chan, exc, panel, hist, pure>>

\* -------------------------------------------------------------- session
\* async with: websockets.connect(URI_ESP32_1) is entered first.
Connect1 ==
    /\ pc = "connect1"
    /\ \/ /\ chan' = [chan EXCEPT ![1] = "open"]
          /\ pc' = "connect2"
          /\ UNCHANGED exc
       \/ /\ exc' = TRUE
          /\ pc' = "ended"
          /\ UNCHANGED chan
    /\ UNCHANGED <<ui, locals, panel, hist, pure>>

\* Connect2 as it would be were websocket1 not held by the async with: the
\* failure of the second connect leaves the first connection as it is.
Connect2NoExit ==
    /\ pc = "connect2"
    /\ \/ /\ chan' = [chan EXCEPT ![2] = "open"]
          /\ pc' = "while"
          /\ UNCHANGED exc
       \/ /\ exc' = TRUE
          /\ pc' = "ended"
          /\ UNCHANGED chan
    /\ UNCHANGED <<ui, locals, panel, hist, pure>>

\* websockets.connect(URI_ESP32_2); when it raises, the context manager of
\* websocket1, already entered, is exited.
Connect2 ==
    /\ pc = "connect2"
    /\ \/ /\ chan' = [chan EXCEPT ![2] = "open"]
          /\ pc' = "while"
          /\ UNCHANGED exc
       \/ /\ exc' = TRUE
          /\ pc' = "exit1"
          /\ UNCHANGED chan
    /\ UNCHANGED <<ui, locals, panel, hist, pure>>

\* WhileTest as `while True:` would be.
WhileTestIgnoresFlag ==
    /\ pc = "while"
    /\ pc' = "for"
    /\ idx' = 1
    /\ UNCHANGED <<ui, image_path, task, off, received_K, chan, exc, panel, hist, pure>>

\* while streaming:
WhileTest ==
    /\ pc = "while"
    /\ IF streaming
       THEN pc' = "for" /\ idx' = 1
       ELSE pc' = "exit2" /\ UNCHANGED idx
    /\ UNCHANGED <<ui, image_path, task, off, received_K, chan, exc, panel, hist, pure>>

\* ForNext as it would be did the session read a copy of the playlist made
\* when it first came to the slot.
ForNextStale ==
    /\ pc = "for"
    /\ IF idx > Len(image_paths)
       THEN /\ pc' = "while"
            /\ UNCHANGED <<image_path, cyc, cycles>>
       ELSE /\ image_path' = (IF cycles = 0 THEN image_paths[idx] ELSE image_path)
            /\ IF image_path' # None
               THEN /\ pc' = "send_image"
                    /\ sentP' = NoChan
                    /\ emittedK' = NoChan
                    /\ sendFailed' = FALSE
                    /\ sentRows' = NoRows
                    /\ cycles' = (IF cycles = 0 THEN 1 ELSE 2)
               ELSE /\ pc' = "brk"
                    /\ UNCHANGED <<cyc, cycles>>
    /\ UNCHANGED <<ui, idx, task, off, received_K, chan, exc, panel, extras, pure>>

\* ForNext as it would be without `if image_path:`: the body is entered for
\* an empty slot too.
ForNextNoTest ==
    /\ pc = "for"
    /\ IF idx > Len(image_paths)
       THEN /\ pc' = "while"
            /\ UNCHANGED <<image_path, cyc, cycles>>
       ELSE /\ image_path' = image_paths[idx]
            /\ pc' = "send_image"
            /\ sentP' = NoChan
            /\ emittedK' = NoChan
            /\ sendFailed' = FALSE
            /\ sentRows' = NoRows
            /\ cycles' = (IF cycles = 0 THEN 1 ELSE 2)
    /\ UNCHANGED <<ui, idx, task, off, received_K, chan, exc, panel, extras, pure>>

\* for image_path in image_paths: if image_path:  -- the list is read live.
\* Entering the body begins a frame cycle.
ForNext ==
    /\ pc = "for"
    /\ IF idx > Len(image_paths)
       THEN /\ pc' = "while"
            /\ UNCHANGED <<image_path, cyc, cycles>>
       ELSE /\ image_path' = image_paths[idx]
            /\ IF image_paths[idx] # None
               THEN /\ pc' = "send_image"
                    /\ sentP' = NoChan
                    /\ emittedK' = NoChan
                    /\ sendFailed' = FALSE
                    /\ sentRows' = NoRows
                    /\ cycles' = (IF cycles = 0 THEN 1 ELSE 2)
               ELSE /\ pc' = "brk"
                    /\ UNCHANGED <<cyc, cycles>>
    /\ UNCHANGED <<ui, idx, task, off, received_K, chan, exc, panel, extras, pure>>

\* send_image up to the gather: an image that cannot be loaded returns at once.
send_image ==
    /\ pc = "send_image"
    /\ IF imread(image_path) = None
       THEN /\ pc' = "listen"
            /\ UNCHANGED <<task, off>>
       ELSE /\ task' = [c \in Chan |-> "run"]
            /\ off' = [c \in Chan |-> 0]
            /\ pc' = "gather_send"
    /\ UNCHANGED <<ui, idx, image_path, received_K, chan, exc, panel, hist, pure>>

\* send_frame_data as it would be were the two send_image_part calls awaited
\* one after the other instead of gathered: the bottom half waits for the
\* top half.
send_frame_data_in_turn(c) ==
    /\ pc = "gather_send"
    /\ task[c] = "run"
    /\ c = 1 => task[2] = "done"
    /\ \/ /\ chan[c] = "open"
          /\ rx' = [rx EXCEPT ![c] = @ + Min(chunk_size, HalfBytes - off[c])]
          /\ off' = [off EXCEPT ![c] = @ + chunk_size]
          /\ task' = [task EXCEPT ![c] =
                        IF off[c] + chunk_size < HalfBytes THEN "run" ELSE "done"]
          /\ sentRows' = [sentRows EXCEPT ![c] =
                            @ \cup RowsAt(c, off[c], Min(chunk_size, HalfBytes - off[c]))]
          /\ UNCHANGED sendFailed
       \/ /\ chan[c] = "broken"
          /\ sendFailed' = TRUE
          /\ task' = [task EXCEPT ![c] = "done"]
          /\ UNCHANGED <<off, rx, sentRows>>
    /\ UNCHANGED <<ui, pc, idx, image_path, received_K, chan, exc, inbox,
                   sentP, emittedK, extras, cycles, pure>>

\* One iteration of send_frame_data on channel c, inside send_image_part:
\* the chunk frame_bytes[i : i + chunk_size] is written, or the write raises
\* and send_image_part swallows the exception.
send_frame_data(c) ==
    /\ pc = "gather_send"
    /\ task[c] = "run"
    /\ \/ /\ chan[c] = "open"
          /\ rx' = [rx EXCEPT ![c] = @ + Min(chunk_size, HalfBytes - off[c])]
          /\ off' = [off EXCEPT ![c] = @ + chunk_size]
          /\ task' = [task EXCEPT ![c] =
                        IF off[c] + chunk_size < HalfBytes THEN "run" ELSE "done"]
          /\ sentRows' = [sentRows EXCEPT ![c] =
                            @ \cup RowsAt(c, off[c], Min(chunk_size, HalfBytes - off[c]))]
          /\ UNCHANGED sendFailed
       \/ /\ chan[c] = "broken"
          /\ sendFailed' = TRUE
          /\ task' = [task EXCEPT ![c] = "done"]
          /\ UNCHANGED <<off, rx, sentRows>>
    /\ UNCHANGED <<ui, pc, idx, image_path, received_K, chan, exc, inbox,
                   sentP, emittedK, extras, cycles, pure>>

\* asyncio.gather of the two send_image_part coroutines returns.
GatherSendReturn ==
    /\ pc = "gather_send"
    /\ \A c \in Chan : task[c] = "done"
    /\ task' = [c \in Chan |-> "idle"]
    /\ off' = [c \in Chan |-> 0]
    /\ pc' = "listen"
    /\ UNCHANGED <<ui, idx, image_path, received_K, chan, exc, panel, hist, pure>>

\* listen_for_K: received_K1 = received_K2 = False.
listen_for_K ==
    /\ pc = "listen"
    /\ received_K' = NoChan
    /\ pc' = "loop"
    /\ UNCHANGED <<ui, idx, image_path, task, off, chan, exc, panel, hist, pure>>

\* ListenDone as `while not (received_K1 or received_K2)` would be.
ListenDoneEither(rk) == rk[1] \/ rk[2]

\* The value listen_for_K loops until, and returns.
ListenDone(rk) == rk[1] /\ rk[2]

\* ListenLoop as it would be if the ready-wait polled the flag.
ListenLoopPollsFlag ==
    /\ pc = "loop"
    /\ IF ~streaming
       THEN pc' = "exit2" /\ UNCHANGED task
       ELSE IF ListenDone(received_K)
            THEN pc' = "gatherP" /\ task' = [c \in Chan |-> "run"]
            ELSE pc' = "recv1" /\ UNCHANGED task
    /\ UNCHANGED <<ui, idx, image_path, off, received_K, chan, exc, panel, hist, pure>>

\* while not (received_K1 and received_K2): ...; return; on True the caller
\* gathers the two sends of "P".
ListenLoop ==
    /\ pc = "loop"
    /\ IF ListenDone(received_K)
       THEN pc' = "gatherP" /\ task' = [c \in Chan |-> "run"]
       ELSE pc' = "recv1" /\ UNCHANGED task
    /\ UNCHANGED <<ui, idx, image_path, off, received_K, chan, exc, panel, hist, pure>>

RecvPc(c) == IF c = 1 THEN "recv1" ELSE "recv2"
AfterRecv(c) == IF c = 1 THEN "recv2" ELSE "loop"

\* websocket.recv() can return: a message is queued, or the connection is lost.
RecvReady(c) == inbox[c] # <<>> \/ chan[c] = "broken"

\* Recv as it would be without `if response == "K":`: any message latches.
RecvLatchesAny(c) ==
    /\ pc = RecvPc(c)
    /\ IF received_K[c]
       THEN /\ pc' = AfterRecv(c)
            /\ UNCHANGED <<received_K, inbox, exc>>
       ELSE /\ RecvReady(c)
            /\ IF inbox[c] # <<>>
               THEN /\ inbox' = [inbox EXCEPT ![c] = Tail(@)]
                    /\ received_K' = [received_K EXCEPT ![c] = TRUE]
                    /\ pc' = AfterRecv(c)
                    /\ UNCHANGED exc
               ELSE /\ exc' = TRUE
                    /\ pc' = "exit2"
                    /\ UNCHANGED <<received_K, inbox>>
    /\ UNCHANGED <<ui, idx, image_path, task, off, chan, rx, hist, pure>>

\* if not received_Kc: response = await websocketc.recv(); if response == "K": ...
Recv(c) ==
    /\ pc = RecvPc(c)
    /\ IF received_K[c]
       THEN /\ pc' = AfterRecv(c)
            /\ UNCHANGED <<received_K, inbox, exc>>
       ELSE /\ RecvReady(c)
            /\ IF inbox[c] # <<>>
               THEN /\ inbox' = [inbox EXCEPT ![c] = Tail(@)]
                    /\ received_K' = [received_K EXCEPT ![c] = (Head(inbox[c]) = "K")]
                    /\ pc' = AfterRecv(c)
                    /\ UNCHANGED exc
               ELSE /\ exc' = TRUE
                    /\ pc' = "exit2"
                    /\ UNCHANGED <<received_K, inbox>>
    /\ UNCHANGED <<ui, idx, image_path, task, off, chan, rx, hist, pure>>

\* websocketc.send('P') inside the gather.  A send that raises ends the
\* gather at once; the other send, already scheduled, may still run until
\* its connection is closed.
SendP(c) ==
    /\ pc \in {"gatherP", "exit2", "exit1"}
    /\ task[c] = "run"
    /\ \/ /\ chan[c] = "open"
          /\ sentP' = [sentP EXCEPT ![c] = TRUE]
          /\ UNCHANGED <<pc, exc>>
       \/ /\ chan[c] = "broken"
          /\ IF pc = "gatherP"
             THEN pc' = "exit2" /\ exc' = TRUE
             ELSE UNCHANGED <<pc, exc>>
          /\ UNCHANGED sentP
    /\ task' = [task EXCEPT ![c] = "done"]
    /\ UNCHANGED <<ui, idx, image_path, off, received_K, chan, panel,
                   emittedK, sendFailed, sentRows, extras, cycles, pure>>

\* The gather of the two "P" sends returns.
GatherPReturn ==
    /\ pc = "gatherP"
    /\ \A c \in Chan : task[c] = "done"
    /\ task' = [c \in Chan |-> "idle"]
    /\ pc' = "sleep"
    /\ UNCHANGED <<ui, idx, image_path, off, received_K, chan, exc, panel, hist, pure>>

\* await asyncio.sleep(delay_between_images)
Sleep ==
    /\ pc = "sleep"
    /\ pc' = "brk"
    /\ UNCHANGED <<ui, locals, chan, exc, panel, hist, pure>>

\* BreakTest as `if streaming: break` would be.
BreakTestInverted ==
    /\ pc = "brk"
    /\ IF streaming
       THEN pc' = "while" /\ UNCHANGED idx
       ELSE pc' = "for" /\ idx' = idx + 1
    /\ UNCHANGED <<ui, image_path, task, off, received_K, chan, exc, panel, hist, pure>>

\* if not streaming: break   -- else the for loop advances.
BreakTest ==
    /\ pc = "brk"
    /\ IF ~streaming
       THEN pc' = "while" /\ UNCHANGED idx
       ELSE pc' = "for" /\ idx' = idx + 1
    /\ UNCHANGED <<ui, image_path, task, off, received_K, chan, exc, panel, hist, pure>>

\* websocket.close() of channel c: the connection and what was queued on
\* it are gone.
Close(c) ==
    /\ chan' = [chan EXCEPT ![c] = "closed"]
    /\ inbox' = [inbox EXCEPT ![c] = <<>>]
    /\ rx' = [rx EXCEPT ![c] = 0]

\* Leaving the async with block: __aexit__ of websocket2 comes first.
Exit2 ==
    /\ pc = "exit2"
    /\ Close(2)
    /\ task' = [task EXCEPT ![2] = "idle"]
    /\ pc' = "exit1"
    /\ UNCHANGED <<ui, idx, image_path, off, received_K, exc, hist, pure>>

\* Exit1 as it would be did the session clear the flag when it returns.
Exit1ClearsFlag ==
    /\ pc = "exit1"
    /\ Close(1)
    /\ pc' = "ended"
    /\ idx' = 1
    /\ image_path' = None
    /\ task' = [c \in Chan |-> "idle"]
    /\ off' = [c \in Chan |-> 0]
    /\ received_K' = NoChan
    /\ sentP' = NoChan
    /\ emittedK' = NoChan
    /\ sendFailed' = FALSE
    /\ sentRows' = NoRows
    /\ extras' = 0
    /\ streaming' = FALSE
    /\ UNCHANGED <<image_paths, others, exc, cycles, pure>>

\* __aexit__ of websocket1, after which the coroutine returns (through the
\* except clause, which prints, when an exception is pending) and its
\* locals are gone.
Exit1 ==
    /\ pc = "exit1"
    /\ Close(1)
    /\ pc' = "ended"
    /\ idx' = 1
    /\ image_path' = None
    /\ task' = [c \in Chan |-> "idle"]
    /\ off' = [c \in Chan |-> 0]
    /\ received_K' = NoChan
    /\ sentP' = NoChan
    /\ emittedK' = NoChan
    /\ sendFailed' = FALSE
    /\ sentRows' = NoRows
    /\ extras' = 0
    /\ UNCHANGED <<ui, exc, cycles, pure>>

\* --------------------------------------------------------------- panels
\* The panel of channel c holds a full half and answers "K".
PanelK(c) ==
    /\ chan[c] = "open"
    /\ rx[c] >= HalfBytes
    /\ inbox' = [inbox EXCEPT ![c] = Append(@, "K")]
    /\ rx' = [rx EXCEPT ![c] = @ - HalfBytes]
    /\ emittedK' = [emittedK EXCEPT ![c] = TRUE]
    /\ UNCHANGED <<ui, pc, locals, chan, exc, sentP, sendFailed, sentRows, extras, cycles, pure>>

\* The panel emits a message nobody asked for: a second "K", or other text.
\* A message shows only when it is read, so it is emitted while a read of
\* the channel is due.
PanelExtra(c) ==
    \E m \in Msgs :
        /\ chan[c] = "open"
        /\ pc = RecvPc(c)
        /\ ~received_K[c]
        /\ extras < MaxExtras
        /\ extras' = extras + 1
        /\ inbox' = [inbox EXCEPT ![c] = Append(@, m)]
        /\ emittedK' = [emittedK EXCEPT ![c] = @ \/ m = "K"]
        /\ UNCHANGED <<ui, pc, locals, chan, exc, rx, sentP, sendFailed, sentRows, cycles, pure>>

\* The session has an operation pending on channel c: a chunk write, a
\* recv() with nothing queued, or the send of "P".
Pending(c) ==
    \/ pc = "gather_send" /\ task[c] = "run"
    \/ pc = RecvPc(c) /\ ~received_K[c] /\ inbox[c] = <<>>
    \/ pc = "gatherP" /\ task[c] = "run"

\* The connection of channel c is lost.  A lost connection shows only in
\* the next operation on it, so it is lost while one is pending.
Drop(c) ==
    /\ chan[c] = "open"
    /\ Pending(c)
    /\ chan' = [chan EXCEPT ![c] = "broken"]
    /\ UNCHANGED <<ui, pc, locals, exc, panel, hist, pure>>

\* ------------------------------------------------------------ behaviours
SessionStep ==
    \/ Connect1 \/ Connect2 \/ WhileTest \/ ForNext \/ send_image
    \/ \E c \in Chan : send_frame_data(c)
    \/ GatherSendReturn \/ listen_for_K \/ ListenLoop
    \/ \E c \in Chan : Recv(c)
    \/ \E c \in Chan : SendP(c)
    \/ GatherPReturn \/ Sleep \/ BreakTest \/ Exit2 \/ Exit1

UIStep ==
    \/ start_streaming \/ stop_streaming \/ remove_image \/ update_image
    \/ OtherSessionEnds

PanelStep ==
    \/ \E c \in Chan : PanelK(c)
    \/ \E c \in Chan : PanelExtra(c)
    \/ \E c \in Chan : Drop(c)

Next == SessionStep \/ UIStep \/ PanelStep

Spec == Init /\ [][Next]_vars

\* The event loop runs a task that can run, and a panel that holds a full
\* half answers.
FairSpec ==
    /\ Spec
    /\ WF_vars(SessionStep)
    /\ \A c \in Chan : WF_vars(PanelK(c))

\* ------------------------------------------- send_frame_data on its own
\* Longest buffer tried.
MaxLen == 4
\* Largest chunk size tried.
MaxChunk == 3
\* Byte values: two are enough to tell one chunk from another.
ByteVals == {0, 1}
Buffers == UNION {[1..n -> ByteVals] : n \in 0..MaxLen}

\* Slice as frame_bytes[i:chunk_size] would be: the end is not moved with i.
SliceAbsoluteEnd(buf, i, n) == SubSeq(buf, i + 1, Min(n, Len(buf)))

\* frame_bytes[i:i + chunk_size]: a slice stops at the end of the buffer.
Slice(buf, i, n) == SubSeq(buf, i + 1, Min(i + n, Len(buf)))

\* send_frame_data is called with a buffer and a chunk size.
InitChunks ==
    /\ SenderInit
    /\ frame_bytes \in Buffers
    /\ csz \in 1..MaxChunk
    /\ pos = 0
    /\ writes = <<>>
    /\ rgb = <<0, 0, 0>>
    /\ px = <<>>
    /\ wire = [c \in Chan |-> <<>>]

\* One iteration of for i in range(0, len(frame_bytes), chunk_size): the
\* chunk is written and the write is awaited before the next iteration.
SendChunk ==
    /\ pos < Len(frame_bytes)
    /\ writes' = Append(writes, Slice(frame_bytes, pos, csz))
    /\ pos' = pos + csz
    /\ UNCHANGED <<sender, frame_bytes, csz, rgb, px, wire>>

NextChunks == SendChunk
SpecChunks == InitChunks /\ [][NextChunks]_vars

\* --------------------------------------------- rgb_to_rgb565 on its own
RECURSIVE BitAnd(_, _)
\* a & b
BitAnd(a, b) ==
    IF a = 0 \/ b = 0 THEN 0
    ELSE (a % 2) * (b % 2) + 2 * BitAnd(a \div 2, b \div 2)

RECURSIVE BitOr(_, _)
\* a | b
BitOr(a, b) ==
    IF a = 0 THEN b
    ELSE IF b = 0 THEN a
    ELSE (IF a % 2 = 1 \/ b % 2 = 1 THEN 1 ELSE 0) + 2 * BitOr(a \div 2, b \div 2)

\* np.uint16(x)
uint16(x) == x % (2^16)
\* x << n in 16 bits
Shl16(x, n) == (x * 2^n) % (2^16)
\* x << n in the 8 bits of the pixel component
Shl8(x, n) == (x * 2^n) % (2^8)

\* rgb_to_rgb565 as it would be without np.uint16 around the masked
\* components: the shifts are done in the 8 bits of the operand.
rgb_to_rgb565_uint8(r, g, b) ==
    LET r_565 == Shl8(BitAnd(r, 248), 8)
        g_565 == Shl8(BitAnd(g, 252), 3)
        b_565 == uint16(b) \div (2^3)
    IN  BitOr(BitOr(r_565, g_565), b_565)

\* r_565 = np.uint16(r & 0xF8) << 8; g_565 = np.uint16(g & 0xFC) << 3;
\* b_565 = np.uint16(b) >> 3; return r_565 | g_565 | b_565
rgb_to_rgb565(r, g, b) ==
    LET r_565 == Shl16(uint16(BitAnd(r, 248)), 8)
        g_565 == Shl16(uint16(BitAnd(g, 252)), 3)
        b_565 == uint16(b) \div (2^3)
    IN  BitOr(BitOr(r_565, g_565), b_565)

\* A component of a pixel of the decoded image (uint8).
Byte == 0..255
\* Component values at the edges of the fields kept and dropped.
Probe == {0, 3, 4, 7, 8, 128, 252, 255}
\* Each component runs through every value while the other two take the
\* probe values.
Pixels ==
    {<<r, g, b>> : r \in Byte, g \in Probe, b \in Probe}
      \cup {<<r, g, b>> : r \in Probe, g \in Byte, b \in Probe}
      \cup {<<r, g, b>> : r \in Probe, g \in Probe, b \in Byte}

\* A pixel of the half, before its conversion.
InitPixel ==
    /\ SenderInit
    /\ frame_bytes = <<>>
    /\ csz = 1
    /\ pos = 0
    /\ writes = <<>>
    /\ rgb \in Pixels
    /\ px = <<>>
    /\ wire = [c \in Chan |-> <<>>]

\* frame_rgb565[y, x] = rgb_to_rgb565(r, g, b)
Encode ==
    /\ px = <<>>
    /\ px' = <<rgb_to_rgb565(rgb[1], rgb[2], rgb[3])>>
    /\ UNCHANGED <<sender, frame_bytes, csz, pos, writes, rgb, wire>>

NextPixel == Encode
SpecPixel == InitPixel /\ [][NextPixel]_vars

\* ---------------------------------------------- listen_for_K on its own
\* Longest message sequence of one channel tried.
MaxMsgs == 3
\* The message sequences of one channel that deliver "K" at some point.
Streams ==
    {q \in UNION {[1..n -> Msgs] : n \in 1..MaxMsgs} :
        \E k \in 1..Len(q) : q[k] = "K"}

\* listen_for_K is called: both channels are connected, a frame has been
\* sent, and each panel has its messages yet to emit.
InitListen ==
    /\ streaming = TRUE
    /\ image_paths = [i \in 1..NumSlots |-> "a.png"]
    /\ pc = "listen"
    /\ idx = 1
    /\ image_path = "a.png"
    /\ chan = [c \in Chan |-> "open"]
    /\ task = [c \in Chan |-> "idle"]
    /\ off = [c \in Chan |-> 0]
    /\ received_K = NoChan
    /\ exc = FALSE
    /\ inbox = [c \in Chan |-> <<>>]
    /\ rx = [c \in Chan |-> 0]
    /\ others = 0
    /\ sentP = NoChan
    /\ emittedK = NoChan
    /\ sendFailed = FALSE
    /\ extras = 0
    /\ cycles = 1
    /\ sentRows = [c \in Chan |-> Part(c)]
    /\ frame_bytes = <<>>
    /\ csz = 1
    /\ pos = 0
    /\ writes = <<>>
    /\ rgb = <<0, 0, 0>>
    /\ px = <<>>
    /\ wire \in [Chan -> Streams]

\* The next message of the panel of channel c arrives.
Deliver(c) ==
    /\ wire[c] # <<>>
    /\ inbox' = [inbox EXCEPT ![c] = Append(@, Head(wire[c]))]
    /\ wire' = [wire EXCEPT ![c] = Tail(@)]
    /\ UNCHANGED <<ui, pc, locals, chan, exc, rx, hist,
                   frame_bytes, csz, pos, writes, rgb, px>>

NextListen ==
    \/ listen_for_K \/ ListenLoop
    \/ \E c \in Chan : Recv(c)
    \/ \E c \in Chan : Deliver(c)
SpecListen == InitListen /\ [][NextListen]_vars
\* Every message is delivered in the end and the coroutine is scheduled.
FairSpecListen == SpecListen /\ WF_vars(NextListen)

\* ------------------------------- a session over an unchanging playlist
\* Slots of the playlist the session runs over.
OrderSlots == 3

\* Run has been pressed with some playlist chosen beforehand.
InitOrder ==
    /\ streaming = TRUE
    /\ image_paths \in [1..OrderSlots -> Paths \cup {None}]
    /\ pc = "connect1"
    /\ idx = 1
    /\ image_path = None
    /\ chan = [c \in Chan |-> "closed"]
    /\ task = [c \in Chan |-> "idle"]
    /\ off = [c \in Chan |-> 0]
    /\ received_K = NoChan
    /\ exc = FALSE
    /\ inbox = [c \in Chan |-> <<>>]
    /\ rx = [c \in Chan |-> 0]
    /\ others = 0
    /\ sentP = NoChan
    /\ emittedK = NoChan
    /\ sendFailed = FALSE
    /\ extras = 0
    /\ cycles = 0
    /\ sentRows = NoRows
    /\ PureIdle

\* The session, the panels answering and failing, and the Stop button; the
\* playlist is left alone.
NextOrder ==
    \/ SessionStep
    \/ \E c \in Chan : PanelK(c)
    \/ \E c \in Chan : Drop(c)
    \/ stop_streaming
SpecOrder == InitOrder /\ [][NextOrder]_vars

TypeOK ==
    /\ streaming \in BOOLEAN
    /\ image_paths \in [1..NumSlots -> Paths \cup {None}]
    /\ pc \in {"idle", "connect1", "connect2", "while", "for", "send_image",
               "gather_send", "listen", "loop", "recv1", "recv2", "gatherP",
               "sleep", "brk", "exit2", "exit1", "ended"}
    /\ idx \in 1..(NumSlots + 1)
    /\ image_path \in Paths \cup {None}
    /\ chan \in [Chan -> {"closed", "open", "broken"}]
    /\ task \in [Chan -> {"idle", "run", "done"}]
    /\ \A c \in Chan : off[c] \in 0..(HalfBytes + chunk_size)
    /\ received_K \in [Chan -> BOOLEAN]
    /\ exc \in BOOLEAN
    /\ \A c \in Chan : Len(inbox[c]) <= MaxExtras + 1
    /\ \A c \in Chan : rx[c] \in 0..((MaxExtras + 1) * HalfBytes)
    /\ others \in 0..1
    /\ extras \in 0..MaxExtras
    /\ cycles \in 0..2
    /\ sentRows \in [Chan -> SUBSET (0..(ImageRows - 1))]

\* ================================================================ claims
AllClosed == \A c \in Chan : chan[c] = "closed"
ReadyWait == {"listen", "loop", "recv1", "recv2"}
MidCycle == {"send_image", "gather_send", "gatherP"} \cup ReadyWait

\* C1: "P" is sent on a channel only after that channel emitted "K" within
\* the same frame cycle; a "K" emitted in an earlier cycle and left unread
\* does not license the "P" of a later cycle.
PAfterKOfSameCycle == \A c \in Chan : sentP[c] => emittedK[c]

\* C2: within a frame cycle "P" is sent to neither channel until both
\* channels have delivered "K" in listen_for_K.
PNeedsBothReady ==
    \A c \in Chan : sentP[c] => (received_K[1] /\ received_K[2])

\* C2 witness: both channels latched and "P" written to both.
BothReadyBothP ==
    /\ pc = "gatherP"
    /\ received_K[1] /\ received_K[2]
    /\ sentP[1] /\ sentP[2]

\* C3: a chunk write that fails during SENDING aborts the session: no
\* ready-wait for that frame, no "P", no further frame.
SendFailureAborts ==
    sendFailed => pc \in {"gather_send", "exit2", "exit1", "ended"}

\* C4: when the image of a non-empty entry cannot be loaded, the entry is
\* given up: no ready-wait for "K" and no "P" for it.
LoadFailureSkipsEntry ==
    (pc \in ReadyWait \cup {"gatherP"}) => imread(image_path) # None

\* C5: at most one streaming session is active at any time.
AtMostOneSession == Sessions <= 1

\* The session is suspended in recv() on channel c: nothing is queued there
\* and the connection is alive.
BlockedOn(c) ==
    /\ pc = RecvPc(c)
    /\ ~received_K[c]
    /\ inbox[c] = <<>>
    /\ chan[c] = "open"

\* Channel c is not latched yet and its next message is "K".
KWaiting(c) ==
    /\ pc \in ReadyWait
    /\ ~received_K[c]
    /\ inbox[c] # <<>>
    /\ Head(inbox[c]) = "K"

\* C6: the two ready-waits progress independently: while a "K" is waiting on
\* one channel the session is not held up by the other channel's silence.
ReadyWaitsIndependent ==
    \A c \in Chan : KWaiting(c) => ~BlockedOn(Other(c))

\* An exception was raised before any frame cycle began: a connect failed.
ConnectError == exc /\ cycles = 0

\* C7: when a connect fails, the session stays out of the streaming loop (no
\* frame bytes, no recv, no "P"), channel 2 is not open, and channel 1,
\* if it was opened, is closed by the time the session ends, with the error
\* reported.
ConnectFailureCleansUp ==
    ConnectError =>
        /\ pc \in {"exit1", "ended"}
        /\ chan[2] = "closed"
        /\ \A c \in Chan : rx[c] = 0 /\ ~sentP[c] /\ ~received_K[c]
        /\ pc = "ended" => AllClosed

\* C7 witness: the connect of channel 2 has just failed with channel 1 open.
Connect2JustFailed ==
    /\ pc = "exit1"
    /\ ConnectError
    /\ chan[1] = "open"

\* The first frame cycle's "P" has gone to both channels and no second
\* cycle has begun.
AfterFirstP ==
    /\ cycles = 1
    /\ \/ pc = "gatherP" /\ sentP[1] /\ sentP[2]
       \/ pc \in {"sleep", "brk", "while", "exit2", "exit1", "ended"}

\* C8: when the flag is cleared right after the first cycle's "P" has been
\* sent to both channels and stays cleared, no second cycle begins, no
\* further chunk reaches a panel, and the session ends with both channels
\* closed.
OneCycleAfterStop ==
    /\ [][(AfterFirstP /\ ~streaming /\ ~streaming') =>
            /\ AfterFirstP'
            /\ \A c \in Chan : rx'[c] <= rx[c]]_vars
    /\ [](pc = "ended" => AllClosed)

\* C8 witness: a session that ran one cycle, saw the cleared flag and ended.
OneCycleThenClosed ==
    /\ pc = "ended"
    /\ cycles = 1
    /\ ~exc
    /\ ~streaming
    /\ AllClosed

\* C9: a stop request does not interrupt a frame cycle in progress: with the
\* flag cleared the session leaves the cycle only by completing it ("P"
\* sent, on to the delay) or by a network error.
CancellationIsCooperative ==
    [][(pc \in MidCycle /\ ~streaming /\ pc' \notin MidCycle) =>
            \/ pc' = "sleep" /\ sentP'[1] /\ sentP'[2]
            \/ pc' = "exit2" /\ exc']_vars

\* C9 witness: the flag is cleared and the cycle is going on, "P" written to
\* one channel and about to be written to the other.
StoppedMidCycle ==
    /\ ~streaming
    /\ pc = "gatherP"
    /\ sentP[1] /\ ~sentP[2]
    /\ ~exc

\* C10: once a stop is requested and the flag stays cleared, the session
\* leaves its loop and closes both channels, whatever the playlist.
StopLeadsToClose ==
    <>[](~streaming) => <>[](~SessionActive /\ AllClosed)

\* C12: send_frame_data writes a buffer of L bytes in ceil(L / C) chunks, in
\* ascending offset order, each of C bytes except possibly the last, which
\* has 1..C bytes; the chunks concatenated are the buffer; an empty buffer
\* gives no write.
RECURSIVE Concat(_)
Concat(ss) == IF ss = <<>> THEN <<>> ELSE Head(ss) \o Concat(Tail(ss))
CeilDiv(a, b) == (a + b - 1) \div b
ChunkingExact ==
    LET L == Len(frame_bytes)
        n == Len(writes)
    IN  /\ \A k \in 1..n :
            /\ Len(writes[k]) \in 1..csz
            /\ k < n => Len(writes[k]) = csz
            /\ \A j \in 1..Len(writes[k]) :
                   /\ (k - 1) * csz + j <= L
                   /\ writes[k][j] = frame_bytes[(k - 1) * csz + j]
        /\ n <= CeilDiv(L, csz)
        /\ Concat(writes) = SubSeq(frame_bytes, 1, Min(pos, L))
        /\ pos >= L => /\ n = CeilDiv(L, csz)
                       /\ Concat(writes) = frame_bytes
ShortLastChunk ==
    /\ pos >= Len(frame_bytes)
    /\ Len(writes) >= 2
    /\ Len(writes[Len(writes)]) < csz

\* C13: for every r, g, b in 0..255 rgb_to_rgb565 returns
\* (r div 8) * 2048 + (g div 4) * 32 + (b div 8), a 16-bit value whose three
\* fields do not spill into each other.
Packed565 ==
    px # <<>> =>
        /\ px[1] = (rgb[1] \div 8) * 2048 + (rgb[2] \div 4) * 32 + (rgb[3] \div 8)
        /\ px[1] \in 0..65535
        /\ px[1] \div 2048 = rgb[1] \div 8
        /\ (px[1] \div 32) % 64 = rgb[2] \div 4
        /\ px[1] % 32 = rgb[3] \div 8
WhitePixelPacked == px = <<65535>> /\ rgb = <<255, 255, 255>>

AllAbsent == \A i \in 1..NumSlots : image_paths[i] = None
LoopPcs == {"while", "for", "brk"}

\* C11: while every slot of the playlist is absent the session writes no
\* chunk, reads no message and sends no "P"; it goes round the loop with
\* both channels kept open, leaves the loop only at the while test with the
\* flag cleared, and then closes channel 2 and channel 1.
EmptyPlaylistIdles ==
    [][/\ (AllAbsent /\ pc \in LoopPcs) =>
            /\ pc' \in LoopPcs \cup {"exit2"}
            /\ pc' = "exit2" => (pc = "while" /\ ~streaming)
            /\ (pc = "while" /\ ~streaming /\ pc' # pc) => pc' = "exit2"
            /\ (pc = "brk" /\ ~streaming /\ pc' # pc) => pc' = "while"
            /\ sentRows' = sentRows
            /\ sentP' = sentP
            /\ received_K' = received_K
            /\ \A c \in Chan : /\ rx'[c] <= rx[c]
                               /\ Len(inbox'[c]) >= Len(inbox[c])
                               /\ chan[c] = "open"
                               /\ chan'[c] # "closed"
       /\ (pc = "exit2" /\ pc' # pc) => (pc' = "exit1" /\ chan'[2] = "closed")
       /\ (pc = "exit1" /\ pc' # pc) => (pc' = "ended" /\ AllClosed')
      ]_vars
EmptyPassDone ==
    /\ AllAbsent
    /\ cycles = 0
    /\ pc = "brk"
    /\ streaming
    /\ \A c \in Chan : chan[c] = "open"

PAfterAllChunks ==
    \A c \in Chan :
        (sentP[c] /\ imread(image_path) # None) =>
            \A d \in Chan : sentRows[d] = Part(d)

\* C16: when each channel delivers "K" at some point listen_for_K returns;
\* a message is read from a channel only while that channel is not latched,
\* the message read latches the channel exactly when it is "K" and is
\* dropped otherwise, a latched channel stays latched, and the function
\* returns only with both channels latched.
ReadStepOK ==
    /\ \A c \in Chan :
          /\ (chan'[c] # "closed" /\ Len(inbox'[c]) < Len(inbox[c])) =>
                 /\ pc = RecvPc(c)
                 /\ ~received_K[c]
                 /\ inbox'[c] = Tail(inbox[c])
                 /\ received_K'[c] = (Head(inbox[c]) = "K")
          /\ (received_K[c] /\ pc \in {"loop", "recv1", "recv2"}
                 /\ pc' \in {"loop", "recv1", "recv2", "gatherP"}) => received_K'[c]
    /\ (pc = "loop" /\ pc' = "gatherP") => \A d \in Chan : received_K[d]
ListenReadsUpToK == [][ReadStepOK]_vars /\ <>(pc = "gatherP")
UnreadAfterK ==
    /\ pc = "gatherP"
    /\ \A c \in Chan : received_K[c] /\ inbox[c] # <<>>

\* C17: the two sends of a frame run concurrently: while the send of a
\* channel has chunks left its next write can be issued whatever the state
\* of the send on the other channel, so one send stalled part-way does not
\* keep the other from writing all its chunks; a write on one channel
\* leaves the progress of the other send as it is.
SendsIndependent ==
    \A c \in Chan :
        (pc = "gather_send" /\ task[c] = "run") =>
            /\ ENABLED send_frame_data(c)
            /\ ENABLED (send_frame_data(c) /\ off'[Other(c)] = off[Other(c)]
                           /\ task'[Other(c)] = task[Other(c)])
OneStalledOtherDone ==
    /\ pc = "gather_send"
    /\ task[2] = "run" /\ off[2] > 0 /\ off[2] < HalfBytes
    /\ task[1] = "done" /\ sentRows[1] = Part(1)
    /\ chan[2] = "open"

\* C20: the streaming flag changes only in a press of Run, which sets it,
\* or of Stop, which clears it; no step of the session changes it, so a
\* session that ends leaves the flag as it found it: still set after an
\* error, cleared after a Stop.
FlagStepOK ==
    streaming' # streaming =>
           /\ \/ start_streaming /\ streaming'
              \/ stop_streaming /\ ~streaming'
           /\ ~(SessionStep \/ PanelStep)
           /\ ~(pc # "ended" /\ pc' = "ended")
FlagWrittenByUIOnly == [][FlagStepOK]_vars
EndedOnErrorFlagSet == pc = "ended" /\ exc /\ streaming /\ cycles > 0

\* C19: the session reads the playlist itself, not a copy: coming to a slot
\* it takes the value the slot has at that moment, so a slot set or cleared
\* by the UI during streaming is seen with its new value; an edit changes
\* nothing of the session, and a cycle in progress keeps the entry it began
\* with.
LivePlaylistStepOK ==
    /\ (pc = "for" /\ pc' # pc /\ idx <= NumSlots) =>
           /\ image_path' = image_paths[idx]
           /\ pc' = (IF image_paths[idx] # None THEN "send_image" ELSE "brk")
    /\ image_paths' # image_paths =>
           UNCHANGED <<pc, locals, chan, exc, panel, hist>>
    /\ (pc \in MidCycle \cup {"sleep"} /\ pc' \in MidCycle \cup {"sleep"}) =>
           image_path' = image_path
PlaylistReadLive == [][LivePlaylistStepOK]_vars
RemovalSeen ==
    /\ pc = "brk"
    /\ streaming
    /\ cycles > 0
    /\ image_path = None
    /\ image_paths[idx] = None

\* C18: over an unchanging playlist the session takes the slots in order:
\* a pass starts at the first slot and goes on slot by slot, a new pass
\* starts only after the last slot (a break on the cleared flag ends the
\* pass and, with the flag left cleared, the session), a frame
\* cycle begins only for the slot the pass is at and only when that slot is
\* not empty, and an empty slot is passed over.  A cycle once begun is left
\* only into the delay or out of the session; the delay is reached only
\* with "P" sent on both channels and, for a loadable entry, both halves
\* written whole, and the next slot is looked at only after the delay.
OrderStepOK ==
    /\ (pc # "send_image" /\ pc' = "send_image") =>
           /\ pc = "for"
           /\ idx <= Len(image_paths)
           /\ image_paths[idx] # None
           /\ image_path' = image_paths[idx]
           /\ idx' = idx
    /\ (pc = "for" /\ pc' # pc /\ idx <= Len(image_paths) /\ image_paths[idx] = None) =>
           (pc' = "brk" /\ sentRows' = sentRows /\ sentP' = sentP)
    /\ idx' # idx =>
           \/ pc = "brk" /\ streaming /\ pc' = "for" /\ idx' = idx + 1
           \/ pc = "while" /\ pc' = "for" /\ idx' = 1
           \/ pc' = "ended"
    /\ (pc = "brk" /\ streaming /\ pc' # pc) => (pc' = "for" /\ idx' = idx + 1)
    /\ (pc # "while" /\ pc' = "while") =>
           \/ pc = "for" /\ idx > Len(image_paths)
           \/ pc = "brk" /\ ~streaming
           \/ pc = "connect2"
    /\ (pc = "while" /\ pc' = "for") =>
           \/ idx > Len(image_paths)
           \/ idx = 1 /\ cycles = 0 /\ image_path = None
    /\ (pc \in MidCycle /\ pc' \notin MidCycle) => pc' \in {"sleep", "exit2"}
    /\ pc = "sleep" =>
           /\ \A c \in Chan : sentP[c]
           /\ imread(image_path) # None => \A c \in Chan : sentRows[c] = Part(c)
           /\ pc' # pc => pc' = "brk"
    /\ sentRows' # sentRows =>
           \/ pc = "gather_send" /\ pc' = pc
           \/ pc = "for" /\ pc' = "send_image"
           \/ pc' = "ended"
====
